---- MODULE Spec2Model ----
(***************************************************************************)
(* Model of the bare-metal deployment orchestrator                         *)
(* (openstack/baremetal/v1/nodes/deployment.go, func Deploy and the        *)
(* methods of *Deployment) together with the goroutine of the driver that  *)
(* drains the progress channel (tmp/deploy.go), and of the config drive    *)
(* builder (ConfigDrive.ToConfigDrive and the user data serializers).      *)
(*                                                                         *)
(* The orchestrator is a chain of blocking calls.  It is cut into steps at *)
(* every remote call and at every send on the unbuffered progress channel, *)
(* because these are the points where it can block or observe the remote   *)
(* service.  The remote service (Ironic) is the environment: its state     *)
(* changes on its own and decides the outcome of each remote call.         *)
(***************************************************************************)
EXTENDS Integers, Sequences, FiniteSets, TLC

VARIABLES
    percentNonNil,   \* argument of Deploy: a progress channel was supplied
    UpdateOptsLen,   \* len(deployment.UpdateOpts)
    ConfigDrive,     \* deployment.ConfigDrive
    Error,           \* deployment.Error
    currentState,    \* deployment.currentState
    currentPercent,  \* deployment.currentPercent
    status,          \* deployment.status: "unset", "caller" or "internal"
    pc,              \* position of the goroutine that runs Deploy
    ret,             \* value Deploy returns (NotReturned until a return statement ran)
    node,            \* ProvisionState of the node returned by the last nodes.Get
    sent,            \* values delivered on the progress channel, in order
    closes,          \* number of close() calls made on deployment.status
    calls,           \* patch / changeProvisionState requests issued, in order
    builds,          \* number of ConfigDrive.ToConfigDrive calls
    fs,              \* the temporary directories on disk and their content
    built,           \* what the last ToConfigDrive call returned
    activeDrive,     \* configDrive argument of the "active" request
    failedIn,        \* currentState at the first failure of the run, "" if none
    getFailed,       \* a nodes.Get call of this run has failed
    wmUnrecognized,  \* a poll of WAIT_MANAGE saw neither manageable nor verifying
    getsParity,      \* number of nodes.Get calls made so far, modulo 2
    cpc,             \* position of the goroutine that ranges over the channel
    errors,          \* number of appends the consumer made to the errors list
    remote,          \* remote service: the provisioning state of the node,
                     \* or "unreachable" when a call to the service fails
    runs,            \* two deployments side by side: the fields of each
    remotes,         \* two deployments: the remote state of every node
    requests,        \* two deployments: the remote calls made, with their caller
    channels,        \* two deployments: the values sent on every channel
    actor            \* two deployments: the run that took the last step

vars == <<percentNonNil, UpdateOptsLen, ConfigDrive, Error, currentState,
          currentPercent, status, pc, ret, node, sent, closes, calls, builds,
          fs, built, activeDrive, failedIn, getFailed, wmUnrecognized,
          getsParity, cpc, errors, remote, runs, remotes, requests, channels,
          actor>>

input == <<percentNonNil, UpdateOptsLen, ConfigDrive>>
staging == <<builds, fs, built, activeDrive>>
pair == <<runs, remotes, requests, channels, actor>>
env == <<remote>>
poll == <<node, getsParity>>
consumer == <<cpc, errors>>
history == <<failedIn, getFailed, wmUnrecognized>>

(***************************************************************************)
(* Bounds                                                                  *)
(***************************************************************************)
MaxOps == 1
\* Temporary directory names available to ioutil.TempDir.
MaxTempDirs == 2
\* Calls of ToConfigDrive made one after the other on the same file system.
MaxBuilds == 1
\* Length of a literal user data text.
MaxLen == 2
\* Nesting depth of the values of a user data mapping.
MaxDepth == 1
\* Polls of WAIT_DEPLOY that raise the percentage, followed for each of two
\* deployments running side by side.
MaxRamp == 2

(***************************************************************************)
(* Constants of the program                                                *)
(***************************************************************************)
StateBegin == "BEGIN"
StateConfigure == "CONFIGURE"
StateManage == "MANAGE"
StateWaitManage == "WAIT_MANAGE"
StateProvide == "PROVIDE"
StateWaitProvide == "WAIT_PROVIDE"
StateDeploy == "DEPLOY"
StateWaitDeploy == "WAIT_DEPLOY"
StateDone == "DONE"

StateBeginPercent == 0
StateConfigurePercent == 10
StateManagePercent == 15
StateWaitManagePercent == 20
StateProvidePercent == 25
StateWaitProvidePercent == 30
\* Mutant: the weight of DEPLOY repeats the weight of WAIT_PROVIDE.
StateDeployPercent_repeated == StateWaitProvidePercent
StateDeployPercent == 35
StateDonePercent == 100
\* Mutant: the ramp of WAIT_DEPLOY is capped at the weight of DONE.
StateWaitDeployPercent_hundred == StateDonePercent
StateWaitDeployPercent == 95

RampStep == 2

\* The happy-path order of the states.
HappyPath ==
    <<StateBegin, StateConfigure, StateManage, StateWaitManage, StateProvide,
      StateWaitProvide, StateDeploy, StateWaitDeploy, StateDone>>

\* The weight the constant block associates with each state.
Percent(s) ==
    CASE s = StateBegin -> StateBeginPercent
      [] s = StateConfigure -> StateConfigurePercent
      [] s = StateManage -> StateManagePercent
      [] s = StateWaitManage -> StateWaitManagePercent
      [] s = StateProvide -> StateProvidePercent
      [] s = StateWaitProvide -> StateWaitProvidePercent
      [] s = StateDeploy -> StateDeployPercent
      [] s = StateWaitDeploy -> StateWaitDeployPercent
      [] s = StateDone -> StateDonePercent

\* Provisioning states a node can report.  "deploy failed" stands for the
\* states none of the wait loops recognizes.
ProvisionStates ==
    {"verifying", "manageable", "cleaning", "available",
     "deploy wait", "deploying", "active", "deploy failed"}

\* What the remote service answers when it cannot be reached or rejects the
\* call.
Unreachable == "unreachable"

(***************************************************************************)
(* Error values                                                            *)
(***************************************************************************)
NoError == [kind |-> "nil", state |-> ""]
NotReturned == [kind |-> "not returned", state |-> ""]
TransportError(op) == [kind |-> op, state |-> ""]
UnexpectedState(what, ps) == [kind |-> what, state |-> ps]
BuildError(step) == [kind |-> "build", state |-> step]
UnsupportedType == [kind |-> "json: unsupported type", state |-> ""]
UnknownState == [kind |-> "unknown state", state |-> ""]

\* Outcome of a remote call, decided by the remote service.
RemoteCall(op) == IF remote = Unreachable THEN TransportError(op) ELSE NoError

(***************************************************************************)
(* Byte strings.  A string and a []byte are sequences of bytes (0..255).   *)
(***************************************************************************)
Ascii ==
    [quote |-> 34, backslash |-> 92, newline |-> 10, return |-> 13,
     tab |-> 9, space |-> 32, comma |-> 44, colon |-> 58, lbrace |-> 123,
     rbrace |-> 125, lbracket |-> 91, rbracket |-> 93, zero |-> 48,
     a |-> 97, n |-> 110, r |-> 114, t |-> 116, u |-> 117,
     lt |-> 60, gt |-> 62, amp |-> 38, B |-> 66, control |-> 1]

Range(q) == {q[i] : i \in 1..Len(q)}

RECURSIVE Repeat(_, _)
Repeat(q, k) == IF k = 0 THEN <<>> ELSE q \o Repeat(q, k - 1)

Drop(q, k) == SubSeq(q, k + 1, Len(q))

RECURSIVE BytesLess(_, _)
\* Byte-wise lexicographic order, the order in which encoding/json writes the
\* keys of a map.
BytesLess(a, b) ==
    IF b = <<>> THEN FALSE
    ELSE IF a = <<>> THEN TRUE
    ELSE IF Head(a) # Head(b) THEN Head(a) < Head(b)
    ELSE BytesLess(Tail(a), Tail(b))

RECURSIVE SortedKeys(_)
SortedKeys(ks) ==
    IF ks = {} THEN <<>>
    ELSE LET k == CHOOSE x \in ks : \A y \in ks \ {x} : BytesLess(x, y)
         IN <<k>> \o SortedKeys(ks \ {k})

(***************************************************************************)
(* encoding/json, as json.Marshal and json.MarshalIndent use it on a       *)
(* map[string]interface{}.  A value is a record tagged by t:               *)
(*   "str" (v: bytes), "bool" (v), "num" (v: a natural), "null",           *)
(*   "list" (v: sequence of values), "map" (v: function from keys to       *)
(*   values), and "chan" for a Go value encoding/json cannot represent.    *)
(***************************************************************************)
JStr(s) == [t |-> "str", v |-> s]
JBool(b) == [t |-> "bool", v |-> b]
JNum(k) == [t |-> "num", v |-> k]
JNull == [t |-> "null", v |-> <<>>]
JList(q) == [t |-> "list", v |-> q]
JMap(f) == [t |-> "map", v |-> f]
JChan == [t |-> "chan", v |-> <<>>]

RECURSIVE Representable(_)
\* encoding/json returns an UnsupportedTypeError for a value it cannot encode.
Representable(j) ==
    CASE j.t = "chan" -> FALSE
      [] j.t = "list" -> \A i \in 1..Len(j.v) : Representable(j.v[i])
      [] j.t = "map" -> \A k \in DOMAIN j.v : Representable(j.v[k])
      [] OTHER -> TRUE

\* Lower-case hexadecimal digit.
HexDigit(d) == IF d < 10 THEN Ascii.zero + d ELSE Ascii.a + (d - 10)

\* Mutant: no byte of a string literal is escaped.
EscapeByte_none(b) == <<b>>

\* The escape of one byte inside a string literal: the short escapes, and
\* \u00XX for the other control characters and for <, > and &.
EscapeByte(b) ==
    CASE b = Ascii.quote -> <<Ascii.backslash, Ascii.quote>>
      [] b = Ascii.backslash -> <<Ascii.backslash, Ascii.backslash>>
      [] b = Ascii.newline -> <<Ascii.backslash, Ascii.n>>
      [] b = Ascii.return -> <<Ascii.backslash, Ascii.r>>
      [] b = Ascii.tab -> <<Ascii.backslash, Ascii.t>>
      [] b < Ascii.space /\ b \notin {Ascii.newline, Ascii.return, Ascii.tab} ->
           <<Ascii.backslash, Ascii.u, Ascii.zero, Ascii.zero,
             HexDigit(b \div 16), HexDigit(b % 16)>>
      [] b \in {Ascii.lt, Ascii.gt, Ascii.amp} ->
           <<Ascii.backslash, Ascii.u, Ascii.zero, Ascii.zero,
             HexDigit(b \div 16), HexDigit(b % 16)>>
      [] OTHER -> <<b>>

RECURSIVE EscapeString(_)
EscapeString(s) ==
    IF s = <<>> THEN <<>> ELSE EscapeByte(Head(s)) \o EscapeString(Tail(s))

RECURSIVE Digits(_)
Digits(k) ==
    IF k < 10 THEN <<Ascii.zero + k>>
    ELSE Digits(k \div 10) \o <<Ascii.zero + (k % 10)>>

Literal(s) == <<Ascii.quote>> \o EscapeString(s) \o <<Ascii.quote>>

RECURSIVE Encode(_, _, _)
RECURSIVE EncodeItems(_, _, _, _)
\* The i-th and later items of a list or map, each on a line of its own when
\* an indent is given, separated by commas.
EncodeItems(items, i, indent, depth) ==
    IF i > Len(items) THEN <<>>
    ELSE (IF indent = <<>> THEN <<>>
          ELSE <<Ascii.newline>> \o Repeat(indent, depth))
         \o items[i]
         \o (IF i < Len(items) THEN <<Ascii.comma>> ELSE <<>>)
         \o EncodeItems(items, i + 1, indent, depth)

\* The bytes of value j at nesting depth `depth`; without an indent the
\* output is compact, with one it is indented.
Encode(j, indent, depth) ==
    CASE j.t = "str" -> Literal(j.v)
      [] j.t = "bool" -> IF j.v THEN <<116, 114, 117, 101>>
                                ELSE <<102, 97, 108, 115, 101>>
      [] j.t = "num" -> Digits(j.v)
      [] j.t = "null" -> <<110, 117, 108, 108>>
      [] j.t = "list" ->
           IF j.v = <<>> THEN <<Ascii.lbracket, Ascii.rbracket>>
           ELSE <<Ascii.lbracket>>
                \o EncodeItems([i \in 1..Len(j.v) |->
                                   Encode(j.v[i], indent, depth + 1)],
                               1, indent, depth + 1)
                \o (IF indent = <<>> THEN <<>>
                    ELSE <<Ascii.newline>> \o Repeat(indent, depth))
                \o <<Ascii.rbracket>>
      [] j.t = "map" ->
           IF DOMAIN j.v = {} THEN <<Ascii.lbrace, Ascii.rbrace>>
           ELSE LET ks == SortedKeys(DOMAIN j.v)
                IN <<Ascii.lbrace>>
                   \o EncodeItems([i \in 1..Len(ks) |->
                                      Literal(ks[i]) \o <<Ascii.colon>>
                                      \o (IF indent = <<>> THEN <<>>
                                          ELSE <<Ascii.space>>)
                                      \o Encode(j.v[ks[i]], indent, depth + 1)],
                                  1, indent, depth + 1)
                   \o (IF indent = <<>> THEN <<>>
                       ELSE <<Ascii.newline>> \o Repeat(indent, depth))
                   \o <<Ascii.rbrace>>

\* json.Marshal(v): the compact bytes and the error.
Marshal(j) ==
    IF Representable(j) THEN [data |-> Encode(j, <<>>, 0), err |-> NoError]
                        ELSE [data |-> <<>>, err |-> UnsupportedType]

\* json.MarshalIndent(v, "", indent).
MarshalIndent(j, indent) ==
    IF Representable(j) THEN [data |-> Encode(j, indent, 0), err |-> NoError]
                        ELSE [data |-> <<>>, err |-> UnsupportedType]

(***************************************************************************)
(* User data                                                               *)
(***************************************************************************)
\* A nil UserDataBuilder, a nil map.
Absent == [t |-> "nil", v |-> <<>>]

UserDataString(s) == [t |-> "text", v |-> s]
UserDataMap(f) == JMap(f)

FourSpaces == Repeat(<<Ascii.space>>, 4)

RECURSIVE TrimRight(_)
TrimRight(s) ==
    IF s # <<>> /\ s[Len(s)] \in {Ascii.space, Ascii.newline}
      THEN TrimRight(SubSeq(s, 1, Len(s) - 1)) ELSE s

\* Mutant: the literal text loses its trailing white space.
ToUserData_trims(data) ==
    IF data.t = "text" THEN [data |-> TrimRight(data.v), err |-> NoError]
                       ELSE MarshalIndent(data, FourSpaces)

\* UserDataString.ToUserData returns the bytes of the text;
\* UserDataMap.ToUserData returns json.MarshalIndent(data, "", "    ").
ToUserData(data) ==
    IF data.t = "text" THEN [data |-> data.v, err |-> NoError]
                       ELSE MarshalIndent(data, FourSpaces)

(***************************************************************************)
(* encoding/base64, StdEncoding                                            *)
(***************************************************************************)
\* Mutant: the URL-safe alphabet.
B64Char_urlSafe(i) ==
    IF i < 26 THEN 65 + i
    ELSE IF i < 52 THEN 97 + (i - 26)
    ELSE IF i < 62 THEN 48 + (i - 52)
    ELSE IF i = 62 THEN 45 ELSE 95

\* The character of the standard alphabet for a 6-bit value.
B64Char(i) ==
    IF i < 26 THEN 65 + i
    ELSE IF i < 52 THEN 97 + (i - 26)
    ELSE IF i < 62 THEN 48 + (i - 52)
    ELSE IF i = 62 THEN 43 ELSE 47

B64Pad == <<61>>

RECURSIVE EncodeToString(_)
EncodeToString(b) ==
    IF b = <<>> THEN <<>>
    ELSE IF Len(b) = 1
      THEN <<B64Char(b[1] \div 4), B64Char((b[1] % 4) * 16)>>
           \o B64Pad \o B64Pad
    ELSE IF Len(b) = 2
      THEN <<B64Char(b[1] \div 4),
             B64Char((b[1] % 4) * 16 + b[2] \div 16),
             B64Char((b[2] % 16) * 4)>> \o B64Pad
    ELSE <<B64Char(b[1] \div 4),
           B64Char((b[1] % 4) * 16 + b[2] \div 16),
           B64Char((b[2] % 16) * 4 + b[3] \div 64),
           B64Char(b[3] % 64)>> \o EncodeToString(Drop(b, 3))

(***************************************************************************)
(* The file system the config drive is staged on: a function from the      *)
(* names of the existing temporary directories to their content, layout    *)
(* (openstack/latest exists) and files (name -> bytes, under               *)
(* openstack/latest).                                                      *)
(***************************************************************************)
TempNames == 1..MaxTempDirs

\* Mutant: the staging directory has a fixed name.
FreshNames_fixed(disk) == {1}

\* The names ioutil.TempDir can return: it creates the directory with a name
\* no existing entry has.
FreshNames(disk) == TempNames \ DOMAIN disk

TempDir(disk, directory) ==
    (directory :> [layout |-> FALSE, files |-> <<>>]) @@ disk

MkdirAll(disk, directory) == [disk EXCEPT ![directory].layout = TRUE]

WriteFile(disk, directory, name, data) ==
    [disk EXCEPT ![directory].files = (name :> data) @@ @]

\* The files a build can write, in the order of their names.
FileNames == <<"meta_data.json", "network_data.json", "user_data">>

\* What can go wrong in the operating system during a build: the step whose
\* system call fails, or "none".
BuildFaults ==
    {"none", "TempDir", "MkdirAll", "user_data", "meta_data.json",
     "network_data.json", "PackDirectoryAsISO"}

(***************************************************************************)
(* PackDirectoryAsISO: the directory tree as an ISO-9660 image, gzipped.   *)
(* The image holds a magic, the layout, and for every file its name (its   *)
(* index in FileNames), its length and its bytes; the gzip stream holds a  *)
(* magic, the image and a checksum.                                        *)
(***************************************************************************)
ISOMagic == <<67, 68, 48, 48, 49>>
GzipMagic == <<31, 139, 8>>

RECURSIVE SumBytes(_, _, _)
\* The sum of b[lo..hi].
SumBytes(b, lo, hi) ==
    IF lo > hi THEN 0
    ELSE IF lo = hi THEN b[lo]
    ELSE SumBytes(b, lo, (lo + hi) \div 2)
           + SumBytes(b, (lo + hi) \div 2 + 1, hi)

Checksum(b) == SumBytes(b, 1, Len(b)) % 256

RECURSIVE ISOEntries(_, _)
ISOEntries(files, i) ==
    IF i > Len(FileNames) THEN <<>>
    ELSE (IF FileNames[i] \in DOMAIN files
            THEN <<i, Len(files[FileNames[i]]) \div 256,
                   Len(files[FileNames[i]]) % 256>> \o files[FileNames[i]]
            ELSE <<>>)
         \o ISOEntries(files, i + 1)

ISOImage(tree) ==
    ISOMagic \o <<IF tree.layout THEN 1 ELSE 0>> \o ISOEntries(tree.files, 1)

Gzip(b) == GzipMagic \o b \o <<Checksum(b)>>

PackDirectoryAsISO(disk, directory) == Gzip(ISOImage(disk[directory]))

(***************************************************************************)
(* ConfigDrive.ToConfigDrive                                               *)
(***************************************************************************)
\* Mutant: the metadata is written under the name of the user data.
MetaDataName_userData == "user_data"
MetaDataName == "meta_data.json"

\* Mutant: after a failure the remaining payloads are still written, the
\* error is returned at the end.
ToConfigDrive_keepsWriting(configDrive, disk, directory, fault) ==
    LET d1 == TempDir(disk, directory)
        d2 == MkdirAll(d1, directory)
        user == ToUserData(configDrive.UserData)
        d3 == IF configDrive.UserData # Absent /\ user.err = NoError
                   /\ fault # "user_data"
                THEN WriteFile(d2, directory, "user_data", user.data) ELSE d2
        meta == Marshal(configDrive.MetaData)
        d4 == IF configDrive.MetaData # Absent /\ meta.err = NoError
                   /\ fault # "meta_data.json"
                THEN WriteFile(d3, directory, MetaDataName, meta.data) ELSE d3
        net == Marshal(configDrive.NetworkData)
        d5 == IF configDrive.NetworkData # Absent /\ net.err = NoError
                   /\ fault # "network_data.json"
                THEN WriteFile(d4, directory, "network_data.json", net.data)
                ELSE d4
        failed(e) == [drive |-> <<>>, err |-> e, disk |-> d5,
                      directory |-> directory]
    IN IF fault = "TempDir"
         THEN [drive |-> <<>>, err |-> BuildError("TempDir"), disk |-> disk,
               directory |-> 0]
       ELSE IF fault = "MkdirAll" THEN failed(BuildError("MkdirAll"))
       ELSE IF configDrive.UserData # Absent /\ user.err # NoError
         THEN failed(user.err)
       ELSE IF configDrive.UserData # Absent /\ fault = "user_data"
         THEN failed(BuildError("user_data"))
       ELSE IF configDrive.MetaData # Absent /\ meta.err # NoError
         THEN failed(meta.err)
       ELSE IF configDrive.MetaData # Absent /\ fault = "meta_data.json"
         THEN failed(BuildError("meta_data.json"))
       ELSE IF configDrive.NetworkData # Absent /\ net.err # NoError
         THEN failed(net.err)
       ELSE IF configDrive.NetworkData # Absent /\ fault = "network_data.json"
         THEN failed(BuildError("network_data.json"))
       ELSE IF fault = "PackDirectoryAsISO"
         THEN failed(BuildError("PackDirectoryAsISO"))
       ELSE [drive |-> EncodeToString(PackDirectoryAsISO(d5, directory)),
             err |-> NoError, disk |-> d5, directory |-> directory]

\* The string and the error ToConfigDrive returns, and the file system it
\* leaves, for a ConfigDrive value, the file system it starts on, the name
\* TempDir picks and the fault of the operating system.
ToConfigDrive(configDrive, disk, directory, fault) ==
    LET failed(e, d) ==
            [drive |-> <<>>, err |-> e, disk |-> d,
             directory |-> IF fault = "TempDir" THEN 0 ELSE directory]
        d1 == TempDir(disk, directory)
        d2 == MkdirAll(d1, directory)
        user == ToUserData(configDrive.UserData)
        d3 == IF configDrive.UserData # Absent
                THEN WriteFile(d2, directory, "user_data", user.data) ELSE d2
        meta == Marshal(configDrive.MetaData)
        d4 == IF configDrive.MetaData # Absent
                THEN WriteFile(d3, directory, MetaDataName, meta.data) ELSE d3
        net == Marshal(configDrive.NetworkData)
        d5 == IF configDrive.NetworkData # Absent
                THEN WriteFile(d4, directory, "network_data.json", net.data)
                ELSE d4
    IN IF fault = "TempDir" THEN failed(BuildError("TempDir"), disk)
       ELSE IF fault = "MkdirAll" THEN failed(BuildError("MkdirAll"), d1)
       ELSE IF configDrive.UserData # Absent /\ user.err # NoError
         THEN failed(user.err, d2)
       ELSE IF configDrive.UserData # Absent /\ fault = "user_data"
         THEN failed(BuildError("user_data"), d2)
       ELSE IF configDrive.MetaData # Absent /\ meta.err # NoError
         THEN failed(meta.err, d3)
       ELSE IF configDrive.MetaData # Absent /\ fault = "meta_data.json"
         THEN failed(BuildError("meta_data.json"), d3)
       ELSE IF configDrive.NetworkData # Absent /\ net.err # NoError
         THEN failed(net.err, d4)
       ELSE IF configDrive.NetworkData # Absent /\ fault = "network_data.json"
         THEN failed(BuildError("network_data.json"), d4)
       ELSE IF fault = "PackDirectoryAsISO"
         THEN failed(BuildError("PackDirectoryAsISO"), d5)
       ELSE [drive |-> EncodeToString(PackDirectoryAsISO(d5, directory)),
             err |-> NoError, disk |-> d5, directory |-> directory]

(***************************************************************************)
(* The ConfigDrive values the checks draw from                             *)
(***************************************************************************)
\* Sequences over `alphabet` of length at most n.
Strings(alphabet, n) == UNION {[1..k -> alphabet] : k \in 0..n}

\* Bytes of a literal text: line feed, space, a letter, and a byte that is
\* no valid UTF-8.
TextAlphabet == {Ascii.newline, Ascii.space, Ascii.a, 255}

\* Strings inside a mapping: the bytes encoding/json escapes, and a letter.
JsonStrings ==
    Strings({Ascii.quote, Ascii.backslash, Ascii.newline, Ascii.lt, Ascii.a,
             Ascii.control}, 1) \cup {<<Ascii.a, Ascii.quote>>}

JsonKeys == {<<Ascii.a>>, <<Ascii.B, Ascii.quote>>}

JsonAtoms ==
    {JStr(s) : s \in JsonStrings}
      \cup {JBool(TRUE), JBool(FALSE), JNum(0), JNum(107), JNull, JChan}

RECURSIVE JsonValues(_)
\* Values nested at most d deep.
JsonValues(d) ==
    IF d = 0 THEN JsonAtoms
    ELSE LET inner == JsonValues(d - 1)
         IN inner
              \cup {JList(<<>>), JMap(<<>>)}
              \cup {JList(<<v>>) : v \in inner}
              \cup {JMap(k :> v) : k \in JsonKeys, v \in inner}

\* The mappings: empty, one key, and two keys.
JsonMaps ==
    {<<>>}
      \cup {k :> v : k \in JsonKeys, v \in JsonValues(MaxDepth)}
      \cup {(<<Ascii.a>> :> v) @@ (<<Ascii.B, Ascii.quote>> :> w) :
              v \in JsonValues(MaxDepth), w \in {JStr(<<Ascii.lt>>)}}

\* The ignition file the driver passes as literal user data.
Ignition == <<Ascii.lbrace, Ascii.rbrace, Ascii.newline>>

\* The ConfigDrive of the driver: literal user data, nothing else.
DriverConfigDrive ==
    [UserData |-> UserDataString(Ignition), MetaData |-> Absent,
     NetworkData |-> Absent]

SampleMetaData == JMap(<<Ascii.a>> :> JStr(<<Ascii.lt, Ascii.quote>>))
SampleNetworkData == JMap(<<Ascii.a>> :> JList(<<JNum(107), JNull>>))

ConfigDrives ==
    {[UserData |-> u, MetaData |-> Absent, NetworkData |-> Absent] :
       u \in {UserDataString(s) : s \in Strings(TextAlphabet, MaxLen)}
               \cup {UserDataMap(m) : m \in JsonMaps}}
      \cup [UserData : {Absent, UserDataString(Ignition),
                        UserDataMap(<<Ascii.a>> :>
                                      JList(<<JNum(1), JBool(TRUE)>>))},
            MetaData : {Absent, SampleMetaData, JMap(<<Ascii.a>> :> JChan)},
            NetworkData : {Absent, SampleNetworkData}]

\* The results a call of ToConfigDrive can have on file system `disk`: one
\* for every name of `names` TempDir can pick and every fault; TempDir fails
\* when no name is left.
BuildOutcomes(configDrive, disk, names) ==
    IF names = {}
      THEN {ToConfigDrive(configDrive, disk, 0, "TempDir")}
      ELSE {ToConfigDrive(configDrive, disk, directory, fault) :
              directory \in names, fault \in BuildFaults}

\* The temporary names are interchangeable: a run on its own is followed
\* for one of them.
OneName(disk) ==
    {d \in FreshNames(disk) : \A e \in FreshNames(disk) : d <= e}

\* The results of the one build of a run, which starts on a file system
\* without temporary directories, for the ConfigDrive of the driver.
RunBuildOutcomes ==
    [configDrive \in {DriverConfigDrive} |->
       BuildOutcomes(configDrive, <<>>, OneName(<<>>))]

\* What `built` holds before the first build.
NotBuilt == [drive |-> <<>>, err |-> NotReturned, directory |-> 0]

\* The first failure of the run is remembered with the state it arose in.
Fail == failedIn' = IF failedIn = "" THEN currentState ELSE failedIn

(***************************************************************************)
(* The progress channel: an unbuffered channel.  A send completes only     *)
(* together with a receive; nobody ever receives from the channel Deploy   *)
(* makes for itself.                                                       *)
(***************************************************************************)
Send(v) ==
    /\ status = "caller"
    /\ cpc = "recv"
    /\ sent' = Append(sent, v)
    /\ cpc' = "check"

(***************************************************************************)
(* Initial state: a fresh Deployment, Deploy about to be called.           *)
(***************************************************************************)
Init ==
    /\ percentNonNil \in BOOLEAN
    /\ UpdateOptsLen \in 0..MaxOps
    /\ ConfigDrive = DriverConfigDrive
    /\ Error = NoError
    /\ currentState = ""
    /\ currentPercent = 0
    /\ status = "unset"
    /\ pc = "Deploy"
    /\ ret = NotReturned
    /\ node = ""
    /\ sent = <<>>
    /\ closes = 0
    /\ calls = <<>>
    /\ builds = 0
    /\ fs = <<>>
    /\ built = NotBuilt
    /\ activeDrive = <<>>
    /\ failedIn = ""
    /\ getFailed = FALSE
    /\ wmUnrecognized = FALSE
    /\ getsParity = 0
    /\ cpc = IF percentNonNil THEN "recv" ELSE "none"
    /\ errors = 0
    /\ remote \in ProvisionStates \cup {Unreachable}
    /\ runs = <<>>
    /\ remotes = <<>>
    /\ requests = <<>>
    /\ channels = <<>>
    /\ actor = 0

(***************************************************************************)
(* func Deploy, up to the first send                                       *)
(***************************************************************************)
Deploy ==
    /\ pc = "Deploy"
    /\ currentState' = StateBegin
    /\ status' = IF percentNonNil THEN "caller" ELSE "internal"
    /\ pc' = IF percentNonNil THEN "sendBegin" ELSE "nextState"
    /\ UNCHANGED <<input, pair, Error, currentPercent, ret, poll, sent, closes,
                   calls, staging, history, consumer, env>>

\* deployment.status <- StateBeginPercent
SendBegin ==
    /\ pc = "sendBegin"
    /\ Send(StateBeginPercent)
    /\ pc' = "nextState"
    /\ UNCHANGED <<input, pair, Error, currentState, currentPercent, status, ret,
                   poll, closes, calls, staging, history, errors, env>>

(***************************************************************************)
(* func (deployment *Deployment) nextState: the dispatcher                 *)
(***************************************************************************)
\* Cases of the switch: the state the machine moves to.
SwitchState(s) ==
    CASE s = StateBegin -> StateConfigure
      [] s = StateConfigure -> StateManage
      [] s = StateManage -> StateWaitManage
      [] s = StateWaitManage -> StateProvide
      [] s = StateProvide -> StateWaitProvide
      [] s = StateWaitProvide -> StateDeploy
      [] s = StateDeploy -> StateWaitDeploy
      [] s = StateWaitDeploy -> StateDone

\* Cases of the switch: the value currentPercent has after the case.
SwitchPercent(s, cur) ==
    CASE s = StateBegin -> cur
      [] s = StateConfigure -> cur
      [] s = StateManage -> StateConfigurePercent
      [] s = StateWaitManage -> StateManagePercent
      [] s = StateProvide -> StateWaitManagePercent
      [] s = StateWaitProvide -> StateProvidePercent
      [] s = StateDeploy -> StateWaitProvidePercent
      [] s = StateWaitDeploy -> StateDeployPercent

\* Cases of the switch: the function assigned to the local nextState, named
\* by the state the machine has just moved to.
SwitchNext(s) ==
    CASE s = StateConfigure -> "configure"
      [] s = StateManage -> "manage"
      [] s = StateWaitManage -> "waitManage"
      [] s = StateProvide -> "provide"
      [] s = StateWaitProvide -> "waitProvide"
      [] s = StateDeploy -> "deploy"
      [] s = StateWaitDeploy -> "waitDeploy"
      [] s = StateDone -> "done"

\* The states the switch has a case for.
SwitchCases ==
    {StateBegin, StateConfigure, StateManage, StateWaitManage, StateProvide,
     StateWaitProvide, StateDeploy, StateWaitDeploy}

\* Mutant: the dispatcher does not look at deployment.Error.
nextState_ignoresError ==
    /\ pc = "nextState"
    /\ IF currentState \in SwitchCases
         THEN /\ currentState' = SwitchState(currentState)
              /\ currentPercent' = SwitchPercent(currentState, currentPercent)
              /\ pc' = "sendPercent"
              /\ ret' = ret
         ELSE /\ ret' = UnknownState
              /\ pc' = "return"
              /\ UNCHANGED <<currentState, currentPercent>>
    /\ UNCHANGED <<input, pair, Error, status, poll, sent, closes, calls, staging,
                   history, consumer, env>>

nextState ==
    /\ pc = "nextState"
    /\ IF Error # NoError
         THEN /\ pc' = "done"
              /\ UNCHANGED <<currentState, currentPercent, ret>>
         ELSE IF currentState \in SwitchCases
           THEN /\ currentState' = SwitchState(currentState)
                /\ currentPercent' = SwitchPercent(currentState, currentPercent)
                /\ pc' = "sendPercent"
                /\ ret' = ret
           ELSE /\ ret' = UnknownState
                /\ pc' = "return"
                /\ UNCHANGED <<currentState, currentPercent>>
    /\ UNCHANGED <<input, pair, Error, status, poll, sent, closes, calls, staging,
                   history, consumer, env>>

\* deployment.status <- deployment.currentPercent, then return nextState()
SendPercent ==
    /\ pc = "sendPercent"
    /\ Send(currentPercent)
    /\ pc' = SwitchNext(currentState)
    /\ UNCHANGED <<input, pair, Error, currentState, currentPercent, status, ret,
                   poll, closes, calls, staging, history, errors, env>>

(***************************************************************************)
(* The state functions                                                     *)
(***************************************************************************)
\* Mutant: the patch call is made whatever the length of UpdateOpts.
configure_alwaysPatches ==
    /\ pc = "configure"
    /\ calls' = Append(calls, "patch")
    /\ IF RemoteCall("patch") # NoError
         THEN Error' = RemoteCall("patch") /\ Fail
         ELSE UNCHANGED <<Error, failedIn>>
    /\ pc' = "nextState"
    /\ UNCHANGED <<input, pair, currentState, currentPercent, status, ret, poll,
                   sent, closes, staging, getFailed, wmUnrecognized, consumer,
                   env>>

configure ==
    /\ pc = "configure"
    /\ IF UpdateOptsLen # 0
         THEN /\ calls' = Append(calls, "patch")
              /\ IF RemoteCall("patch") # NoError
                   THEN Error' = RemoteCall("patch") /\ Fail
                   ELSE UNCHANGED <<Error, failedIn>>
         ELSE UNCHANGED <<calls, Error, failedIn>>
    /\ pc' = "nextState"
    /\ UNCHANGED <<input, pair, currentState, currentPercent, status, ret, poll,
                   sent, closes, staging, getFailed, wmUnrecognized, consumer,
                   env>>

manage ==
    /\ pc = "manage"
    /\ calls' = Append(calls, "manage")
    /\ IF RemoteCall("manage") # NoError
         THEN Error' = RemoteCall("manage") /\ Fail
         ELSE UNCHANGED <<Error, failedIn>>
    /\ pc' = "nextState"
    /\ UNCHANGED <<input, pair, currentState, currentPercent, status, ret, poll,
                   sent, closes, staging, getFailed, wmUnrecognized, consumer,
                   env>>

\* Mutant: a poll that sees "manageable" clears an error recorded before.
waitManage_forgetsError ==
    /\ pc = "waitManage"
    /\ getsParity' = 1 - getsParity
    /\ IF RemoteCall("get") # NoError
         THEN /\ Error' = RemoteCall("get")
              /\ node' = ""
              /\ getFailed' = TRUE
              /\ Fail
              /\ pc' = "nextState"
              /\ UNCHANGED wmUnrecognized
         ELSE /\ node' = remote
              /\ IF remote = "manageable"
                   THEN /\ pc' = "nextState"
                        /\ Error' = NoError
                        /\ UNCHANGED history
                   ELSE IF remote = "verifying"
                     THEN UNCHANGED <<pc, Error, history>>
                     ELSE /\ Error' = UnexpectedState("manage failed", remote)
                          /\ wmUnrecognized' = TRUE
                          /\ Fail
                          /\ UNCHANGED <<pc, getFailed>>
    /\ UNCHANGED <<input, pair, currentState, currentPercent, status, ret, sent,
                   closes, calls, staging, consumer, env>>

\* One iteration of the loop of waitManage.
waitManage ==
    /\ pc = "waitManage"
    /\ getsParity' = 1 - getsParity
    /\ IF RemoteCall("get") # NoError
         THEN /\ Error' = RemoteCall("get")
              /\ node' = ""
              /\ getFailed' = TRUE
              /\ Fail
              /\ pc' = "nextState"
              /\ UNCHANGED wmUnrecognized
         ELSE /\ node' = remote
              /\ IF remote = "manageable"
                   THEN /\ pc' = "nextState"
                        /\ UNCHANGED <<Error, history>>
                   ELSE IF remote = "verifying"
                     THEN UNCHANGED <<pc, Error, history>>
                     ELSE /\ Error' = UnexpectedState("manage failed", remote)
                          /\ wmUnrecognized' = TRUE
                          /\ Fail
                          /\ UNCHANGED <<pc, getFailed>>
    /\ UNCHANGED <<input, pair, currentState, currentPercent, status, ret, sent,
                   closes, calls, staging, consumer, env>>

provide ==
    /\ pc = "provide"
    /\ calls' = Append(calls, "provide")
    /\ Error' = RemoteCall("provide")
    /\ IF RemoteCall("provide") # NoError THEN Fail ELSE UNCHANGED failedIn
    /\ pc' = "nextState"
    /\ UNCHANGED <<input, pair, currentState, currentPercent, status, ret, poll,
                   sent, closes, staging, getFailed, wmUnrecognized, consumer,
                   env>>

\* Mutant: the loop of waitProvide also ends when the node is cleaning.
waitProvide_cleaningBreaks ==
    /\ pc = "waitProvide"
    /\ getsParity' = 1 - getsParity
    /\ IF RemoteCall("get") # NoError
         THEN /\ Error' = RemoteCall("get")
              /\ node' = ""
              /\ getFailed' = TRUE
              /\ Fail
              /\ pc' = "nextState"
              /\ UNCHANGED ret
         ELSE /\ node' = remote
              /\ IF remote \in {"available", "cleaning"}
                   THEN /\ pc' = "nextState"
                        /\ UNCHANGED <<Error, ret, failedIn, getFailed>>
                   ELSE /\ ret' = UnexpectedState("provide failed", remote)
                        /\ pc' = "return"
                        /\ Fail
                        /\ UNCHANGED <<Error, getFailed>>
    /\ UNCHANGED <<input, pair, currentState, currentPercent, status, sent, closes,
                   calls, staging, wmUnrecognized, consumer, env>>

\* Mutant: a node that is cleaning is taken for a failure.
waitProvide_cleaningFails ==
    /\ pc = "waitProvide"
    /\ getsParity' = 1 - getsParity
    /\ IF RemoteCall("get") # NoError
         THEN /\ Error' = RemoteCall("get")
              /\ node' = ""
              /\ getFailed' = TRUE
              /\ Fail
              /\ pc' = "nextState"
              /\ UNCHANGED ret
         ELSE /\ node' = remote
              /\ IF remote = "available"
                   THEN /\ pc' = "nextState"
                        /\ UNCHANGED <<Error, ret, failedIn, getFailed>>
                   ELSE /\ ret' = UnexpectedState("provide failed", remote)
                        /\ pc' = "return"
                        /\ Fail
                        /\ UNCHANGED <<Error, getFailed>>
    /\ UNCHANGED <<input, pair, currentState, currentPercent, status, sent, closes,
                   calls, staging, wmUnrecognized, consumer, env>>

\* One iteration of the loop of waitProvide.
waitProvide ==
    /\ pc = "waitProvide"
    /\ getsParity' = 1 - getsParity
    /\ IF RemoteCall("get") # NoError
         THEN /\ Error' = RemoteCall("get")
              /\ node' = ""
              /\ getFailed' = TRUE
              /\ Fail
              /\ pc' = "nextState"
              /\ UNCHANGED ret
         ELSE /\ node' = remote
              /\ IF remote = "available"
                   THEN /\ pc' = "nextState"
                        /\ UNCHANGED <<Error, ret, failedIn, getFailed>>
                   ELSE IF remote = "cleaning"
                     THEN UNCHANGED <<pc, Error, ret, failedIn, getFailed>>
                     ELSE /\ ret' = UnexpectedState("provide failed", remote)
                          /\ pc' = "return"
                          /\ Fail
                          /\ UNCHANGED <<Error, getFailed>>
    /\ UNCHANGED <<input, pair, currentState, currentPercent, status, sent, closes,
                   calls, staging, wmUnrecognized, consumer, env>>

\* Mutant: the "active" request is made whatever the build returned.
deploy_ignoresBuildError ==
    /\ pc = "deploy"
    /\ builds' = builds + 1
    /\ \E r \in RunBuildOutcomes[ConfigDrive] :
         /\ fs' = r.disk
         /\ built' = [drive |-> r.drive, err |-> r.err,
                      directory |-> r.directory]
         /\ calls' = Append(calls, "active")
         /\ activeDrive' = r.drive
         /\ Error' = RemoteCall("active")
         /\ IF RemoteCall("active") # NoError THEN Fail
                                              ELSE UNCHANGED failedIn
    /\ pc' = "nextState"
    /\ UNCHANGED <<input, pair, currentState, currentPercent, status,
                   ret, poll, sent, closes, getFailed, wmUnrecognized,
                   consumer, env>>

\* func (deployment *Deployment) deploy: the build, then the request.  A run
\* builds once, so the build starts on a file system without temporary
\* directories of its own.
deploy ==
    /\ pc = "deploy"
    /\ builds' = builds + 1
    /\ \E r \in RunBuildOutcomes[ConfigDrive] :
         /\ fs' = r.disk
         /\ built' = [drive |-> r.drive, err |-> r.err,
                      directory |-> r.directory]
         /\ IF r.err # NoError
              THEN /\ Error' = r.err
                   /\ Fail
                   /\ UNCHANGED <<calls, activeDrive>>
              ELSE /\ calls' = Append(calls, "active")
                   /\ activeDrive' = r.drive
                   /\ Error' = RemoteCall("active")
                   /\ IF RemoteCall("active") # NoError THEN Fail
                                                        ELSE UNCHANGED failedIn
    /\ pc' = "nextState"
    /\ UNCHANGED <<input, pair, currentState, currentPercent, status,
                   ret, poll, sent, closes, getFailed, wmUnrecognized,
                   consumer, env>>

\* Mutant: a failing nodes.Get is recorded but does not leave the loop.
waitDeploy_noBreak ==
    /\ pc = "waitDeploy"
    /\ getsParity' = 1 - getsParity
    /\ IF RemoteCall("get") # NoError
         THEN /\ Error' = RemoteCall("get")
              /\ node' = ""
              /\ getFailed' = TRUE
              /\ Fail
              /\ UNCHANGED <<pc, currentPercent>>
         ELSE /\ node' = remote
              /\ IF remote = "active"
                   THEN /\ pc' = "nextState"
                        /\ UNCHANGED <<Error, currentPercent, failedIn, getFailed>>
                   ELSE IF remote \in {"deploy wait", "deploying"}
                     THEN /\ IF currentPercent < StateWaitDeployPercent
                               THEN /\ currentPercent' = currentPercent + RampStep
                                    /\ pc' = "sendRamp"
                               ELSE UNCHANGED <<currentPercent, pc>>
                          /\ UNCHANGED <<Error, failedIn, getFailed>>
                     ELSE /\ Error' = UnexpectedState("deploy failed", remote)
                          /\ Fail
                          /\ pc' = "nextState"
                          /\ UNCHANGED <<currentPercent, getFailed>>
    /\ UNCHANGED <<input, pair, currentState, status, ret, sent, closes, calls,
                   staging, wmUnrecognized, consumer, env>>

\* One iteration of the loop of waitDeploy, up to the send it may make.
waitDeploy ==
    /\ pc = "waitDeploy"
    /\ getsParity' = 1 - getsParity
    /\ IF RemoteCall("get") # NoError
         THEN /\ Error' = RemoteCall("get")
              /\ node' = ""
              /\ getFailed' = TRUE
              /\ Fail
              /\ pc' = "nextState"
              /\ UNCHANGED currentPercent
         ELSE /\ node' = remote
              /\ IF remote = "active"
                   THEN /\ pc' = "nextState"
                        /\ UNCHANGED <<Error, currentPercent, failedIn, getFailed>>
                   ELSE IF remote \in {"deploy wait", "deploying"}
                     THEN /\ IF currentPercent < StateWaitDeployPercent
                               THEN /\ currentPercent' = currentPercent + RampStep
                                    /\ pc' = "sendRamp"
                               ELSE UNCHANGED <<currentPercent, pc>>
                          /\ UNCHANGED <<Error, failedIn, getFailed>>
                     ELSE /\ Error' = UnexpectedState("deploy failed", remote)
                          /\ Fail
                          /\ pc' = "nextState"
                          /\ UNCHANGED <<currentPercent, getFailed>>
    /\ UNCHANGED <<input, pair, currentState, status, ret, sent, closes, calls,
                   staging, wmUnrecognized, consumer, env>>

\* deployment.status <- deployment.currentPercent inside the loop of waitDeploy
SendRamp ==
    /\ pc = "sendRamp"
    /\ Send(currentPercent)
    /\ pc' = "waitDeploy"
    /\ UNCHANGED <<input, pair, Error, currentState, currentPercent, status, ret,
                   poll, closes, calls, staging, history, errors, env>>

\* Mutant: done also closes the channel that Deploy closes on return.
done_closes ==
    /\ pc = "done"
    /\ Send(StateDonePercent)
    /\ closes' = closes + 1
    /\ ret' = Error
    /\ pc' = "return"
    /\ UNCHANGED <<input, pair, Error, currentState, currentPercent, status, poll,
                   calls, staging, history, errors, env>>

\* Mutant: done returns the error without sending the final percentage.
done_silent ==
    /\ pc = "done"
    /\ ret' = Error
    /\ pc' = "return"
    /\ UNCHANGED <<input, pair, Error, currentState, currentPercent, status, poll,
                   sent, closes, calls, staging, history, consumer, env>>

\* func (deployment *Deployment) done
done ==
    /\ pc = "done"
    /\ Send(StateDonePercent)
    /\ ret' = Error
    /\ pc' = "return"
    /\ UNCHANGED <<input, pair, Error, currentState, currentPercent, status, poll,
                   closes, calls, staging, history, errors, env>>

\* Deploy returns: the deferred close(deployment.status) runs.
Return ==
    /\ pc = "return"
    /\ closes' = closes + 1
    /\ pc' = "returned"
    /\ UNCHANGED <<input, pair, Error, currentState, currentPercent, status, ret,
                   poll, sent, calls, staging, history, consumer, env>>

(***************************************************************************)
(* The goroutine that ranges over the progress channel                     *)
(***************************************************************************)
\* Body of the loop: bar.Set(x), then deployment.Error is read.
ConsumerCheck ==
    /\ cpc = "check"
    /\ errors' = IF Error # NoError THEN errors + 1 ELSE errors
    /\ cpc' = "recv"
    /\ UNCHANGED <<input, pair, Error, currentState, currentPercent, status, pc,
                   ret, poll, sent, closes, calls, staging, history, env>>

\* The range loop ends when the channel is closed.
ConsumerExit ==
    /\ cpc = "recv"
    /\ closes > 0
    /\ cpc' = "exit"
    /\ UNCHANGED <<input, pair, Error, currentState, currentPercent, status, pc,
                   ret, poll, sent, closes, calls, staging, history, errors,
                   env>>

(***************************************************************************)
(* The environment: the remote service changes state on its own while a   *)
(* run is in progress.                                                     *)
(***************************************************************************)
Ironic ==
    /\ pc # "returned"
    /\ remote' \in ProvisionStates \cup {Unreachable}
    /\ UNCHANGED <<input, pair, Error, currentState, currentPercent, status, pc,
                   ret, poll, sent, closes, calls, staging, history, consumer>>

Orchestrator ==
    \/ Deploy \/ SendBegin \/ nextState \/ SendPercent
    \/ configure \/ manage \/ waitManage \/ provide \/ waitProvide
    \/ deploy \/ waitDeploy \/ SendRamp \/ done \/ Return

Consumer == ConsumerCheck \/ ConsumerExit

Next ==
    \/ Deploy \/ SendBegin \/ nextState \/ SendPercent
    \/ configure \/ manage \/ waitManage \/ provide \/ waitProvide
    \/ deploy \/ waitDeploy \/ SendRamp \/ done \/ Return
    \/ ConsumerCheck \/ ConsumerExit
    \/ Ironic

Spec == Init /\ [][Next]_vars

\* Both goroutines keep being scheduled; nothing is assumed of the remote
\* service.
FairSpec == Spec /\ WF_vars(Orchestrator) /\ WF_vars(Consumer)

(***************************************************************************)
(* Reading back what the builder wrote: a JSON parser, and the decoding of *)
(* a config drive (base64, gzip, the image).                               *)
(***************************************************************************)
ParseFail == [ok |-> FALSE, v |-> JNull, rest |-> <<>>]
Parsed(v, rest) == [ok |-> TRUE, v |-> v, rest |-> rest]

RECURSIVE SkipSpace(_)
SkipSpace(q) ==
    IF q # <<>>
       /\ Head(q) \in {Ascii.space, Ascii.newline, Ascii.tab, Ascii.return}
      THEN SkipSpace(Tail(q)) ELSE q

StartsWith(q, p) == Len(q) >= Len(p) /\ SubSeq(q, 1, Len(p)) = p

HexDigits == {HexDigit(d) : d \in 0..15}
HexValue(c) == CHOOSE d \in 0..15 : HexDigit(d) = c

RECURSIVE ParseString(_, _)
\* q follows the opening quote; acc is the text read so far.
ParseString(q, acc) ==
    IF q = <<>> THEN ParseFail
    ELSE IF Head(q) = Ascii.quote THEN Parsed(JStr(acc), Tail(q))
    ELSE IF Head(q) = Ascii.backslash
      THEN IF Len(q) < 2 THEN ParseFail
           ELSE IF q[2] \in {Ascii.quote, Ascii.backslash}
             THEN ParseString(Drop(q, 2), Append(acc, q[2]))
           ELSE IF q[2] = Ascii.n
             THEN ParseString(Drop(q, 2), Append(acc, Ascii.newline))
           ELSE IF q[2] = Ascii.r
             THEN ParseString(Drop(q, 2), Append(acc, Ascii.return))
           ELSE IF q[2] = Ascii.t
             THEN ParseString(Drop(q, 2), Append(acc, Ascii.tab))
           ELSE IF q[2] = Ascii.u /\ Len(q) >= 6
                   /\ q[3] = Ascii.zero /\ q[4] = Ascii.zero
                   /\ q[5] \in HexDigits /\ q[6] \in HexDigits
             THEN ParseString(Drop(q, 6),
                              Append(acc, 16 * HexValue(q[5]) + HexValue(q[6])))
           ELSE ParseFail
    ELSE IF Head(q) < Ascii.space THEN ParseFail
    ELSE ParseString(Tail(q), Append(acc, Head(q)))

RECURSIVE ParseDigits(_, _)
ParseDigits(q, acc) ==
    IF q # <<>> /\ Head(q) \in Ascii.zero..(Ascii.zero + 9)
      THEN ParseDigits(Tail(q), 10 * acc + (Head(q) - Ascii.zero))
      ELSE Parsed(JNum(acc), q)

RECURSIVE ParseValue(_)
RECURSIVE ParseElements(_, _)
RECURSIVE ParseMembers(_, _)

\* q follows "[" or a comma; acc holds the elements read so far.
ParseElements(q, acc) ==
    LET r == ParseValue(q)
        s == SkipSpace(r.rest)
    IN IF ~r.ok \/ s = <<>> THEN ParseFail
       ELSE IF Head(s) = Ascii.comma
         THEN ParseElements(Tail(s), Append(acc, r.v))
       ELSE IF Head(s) = Ascii.rbracket
         THEN Parsed(JList(Append(acc, r.v)), Tail(s))
       ELSE ParseFail

\* q follows "{" or a comma; acc holds the members read so far.
ParseMembers(q, acc) ==
    LET p == SkipSpace(q)
    IN IF p = <<>> \/ Head(p) # Ascii.quote THEN ParseFail
       ELSE LET k == ParseString(Tail(p), <<>>)
                c == SkipSpace(k.rest)
            IN IF ~k.ok \/ c = <<>> \/ Head(c) # Ascii.colon THEN ParseFail
               ELSE LET r == ParseValue(Tail(c))
                        s == SkipSpace(r.rest)
                        m == (k.v.v :> r.v) @@ acc
                    IN IF ~r.ok \/ s = <<>> THEN ParseFail
                       ELSE IF Head(s) = Ascii.comma
                         THEN ParseMembers(Tail(s), m)
                       ELSE IF Head(s) = Ascii.rbrace
                         THEN Parsed(JMap(m), Tail(s))
                       ELSE ParseFail

ParseValue(q) ==
    LET p == SkipSpace(q)
    IN IF p = <<>> THEN ParseFail
       ELSE IF Head(p) = Ascii.quote THEN ParseString(Tail(p), <<>>)
       ELSE IF StartsWith(p, <<116, 114, 117, 101>>)
         THEN Parsed(JBool(TRUE), Drop(p, 4))
       ELSE IF StartsWith(p, <<102, 97, 108, 115, 101>>)
         THEN Parsed(JBool(FALSE), Drop(p, 5))
       ELSE IF StartsWith(p, <<110, 117, 108, 108>>)
         THEN Parsed(JNull, Drop(p, 4))
       ELSE IF Head(p) \in Ascii.zero..(Ascii.zero + 9)
         THEN ParseDigits(p, 0)
       ELSE IF Head(p) = Ascii.lbracket
         THEN IF SkipSpace(Tail(p)) # <<>>
                 /\ Head(SkipSpace(Tail(p))) = Ascii.rbracket
                THEN Parsed(JList(<<>>), Tail(SkipSpace(Tail(p))))
                ELSE ParseElements(Tail(p), <<>>)
       ELSE IF Head(p) = Ascii.lbrace
         THEN IF SkipSpace(Tail(p)) # <<>>
                 /\ Head(SkipSpace(Tail(p))) = Ascii.rbrace
                THEN Parsed(JMap(<<>>), Tail(SkipSpace(Tail(p))))
                ELSE ParseMembers(Tail(p), <<>>)
       ELSE ParseFail

\* A JSON text is one value, with nothing but white space after it.
ParseJSON(q) ==
    LET r == ParseValue(q)
    IN IF r.ok /\ SkipSpace(r.rest) = <<>> THEN r ELSE ParseFail

\* Standard base64 with padding, decoded with the standard alphabet.
B64Alphabet == {65 + i : i \in 0..25} \cup {97 + i : i \in 0..25}
                 \cup {48 + i : i \in 0..9} \cup {43, 47}

B64Index(c) ==
    IF c = 43 THEN 62
    ELSE IF c = 47 THEN 63
    ELSE IF c >= 97 THEN 26 + (c - 97)
    ELSE IF c >= 65 THEN c - 65
    ELSE 52 + (c - 48)

Decodable(c) ==
    /\ Len(c) % 4 = 0
    /\ \A i \in 1..Len(c) :
         \/ c[i] \in B64Alphabet
         \/ /\ <<c[i]>> = B64Pad
            /\ i >= Len(c) - 1
            /\ i = Len(c) - 1 => <<c[Len(c)]>> = B64Pad

RECURSIVE DecodeBytes(_)
DecodeBytes(c) ==
    IF c = <<>> THEN <<>>
    ELSE LET i1 == B64Index(c[1])
             i2 == B64Index(c[2])
         IN IF <<c[3]>> = B64Pad THEN <<i1 * 4 + i2 \div 16>>
            ELSE LET i3 == B64Index(c[3])
                 IN IF <<c[4]>> = B64Pad
                      THEN <<i1 * 4 + i2 \div 16, (i2 % 16) * 16 + i3 \div 4>>
                      ELSE <<i1 * 4 + i2 \div 16, (i2 % 16) * 16 + i3 \div 4,
                             (i3 % 4) * 64 + B64Index(c[4])>>
                           \o DecodeBytes(Drop(c, 4))

DecodeString(c) ==
    IF Decodable(c) THEN [ok |-> TRUE, data |-> DecodeBytes(c)]
                    ELSE [ok |-> FALSE, data |-> <<>>]

Gunzip(b) ==
    IF /\ Len(b) > Len(GzipMagic)
       /\ StartsWith(b, GzipMagic)
       /\ b[Len(b)] = Checksum(SubSeq(b, Len(GzipMagic) + 1, Len(b) - 1))
      THEN [ok |-> TRUE, data |-> SubSeq(b, Len(GzipMagic) + 1, Len(b) - 1)]
      ELSE [ok |-> FALSE, data |-> <<>>]

RECURSIVE ReadEntries(_, _)
\* The files of an image, from the entries q and those read so far.
ReadEntries(q, files) ==
    IF q = <<>> THEN [ok |-> TRUE, files |-> files]
    ELSE IF Len(q) < 3 \/ q[1] \notin 1..Len(FileNames)
           \/ Len(q) < 3 + 256 * q[2] + q[3]
      THEN [ok |-> FALSE, files |-> <<>>]
    ELSE ReadEntries(Drop(q, 3 + 256 * q[2] + q[3]),
                     (FileNames[q[1]] :> SubSeq(q, 4, 3 + 256 * q[2] + q[3]))
                       @@ files)

\* Mounting a config drive: the files under openstack/latest.
Mount(drive) ==
    LET raw == DecodeString(drive)
        img == Gunzip(raw.data)
        ents == ReadEntries(Drop(img.data, Len(ISOMagic) + 1), <<>>)
    IN IF raw.ok /\ img.ok /\ StartsWith(img.data, ISOMagic)
          /\ Len(img.data) > Len(ISOMagic)
          /\ img.data[Len(ISOMagic) + 1] = 1 /\ ents.ok
         THEN [ok |-> TRUE, files |-> ents.files]
         ELSE [ok |-> FALSE, files |-> <<>>]

\* The payloads of configDrive that are present, by the file each is
\* written to, and the bytes each serializes to.
PresentNames(configDrive) ==
    (IF configDrive.UserData # Absent THEN {"user_data"} ELSE {})
      \cup (IF configDrive.MetaData # Absent THEN {"meta_data.json"} ELSE {})
      \cup (IF configDrive.NetworkData # Absent THEN {"network_data.json"}
                                                ELSE {})

Serialized(configDrive, name) ==
    CASE name = "user_data" -> ToUserData(configDrive.UserData).data
      [] name = "meta_data.json" -> Marshal(configDrive.MetaData).data
      [] name = "network_data.json" -> Marshal(configDrive.NetworkData).data

\* A build has been made and it succeeded.
BuiltOK == builds > 0 /\ built.err = NoError

(***************************************************************************)
(* The config drive builder on its own: ToConfigDrive called on every      *)
(* ConfigDrive value of ConfigDrives, MaxBuilds times in a row on the same *)
(* file system, under every fault.                                         *)
(***************************************************************************)
BuildInit ==
    /\ percentNonNil = FALSE
    /\ UpdateOptsLen = 0
    /\ ConfigDrive \in ConfigDrives
    /\ Error = NoError
    /\ currentState = ""
    /\ currentPercent = 0
    /\ status = "unset"
    /\ pc = "Deploy"
    /\ ret = NotReturned
    /\ node = ""
    /\ sent = <<>>
    /\ closes = 0
    /\ calls = <<>>
    /\ builds = 0
    /\ fs = <<>>
    /\ built = NotBuilt
    /\ activeDrive = <<>>
    /\ failedIn = ""
    /\ getFailed = FALSE
    /\ wmUnrecognized = FALSE
    /\ getsParity = 0
    /\ cpc = "none"
    /\ errors = 0
    /\ remote = "manageable"
    /\ runs = <<>>
    /\ remotes = <<>>
    /\ requests = <<>>
    /\ channels = <<>>
    /\ actor = 0

Build ==
    /\ builds < MaxBuilds
    /\ builds' = builds + 1
    /\ \E r \in BuildOutcomes(ConfigDrive, fs, OneName(fs)) :
         /\ fs' = r.disk
         /\ built' = [drive |-> r.drive, err |-> r.err,
                      directory |-> r.directory]
    /\ UNCHANGED <<input, pair, Error, currentState, currentPercent, status,
                   pc, ret, poll, sent, closes, calls, activeDrive, history,
                   consumer, env>>

BuildNext == Build

BuildSpec == BuildInit /\ [][BuildNext]_vars

(***************************************************************************)
(* Two deployments side by side, as the driver starts them: one goroutine  *)
(* per node, each with its own Deployment, its own channel and its own     *)
(* ConfigDrive value, all on one file system and one remote service.  A    *)
(* step is one state function, or one call of ToConfigDrive's three parts  *)
(* (TempDir, the writes, the packing); the consumer of each channel is     *)
(* taken to be receiving.                                                  *)
(***************************************************************************)
Runs == {1, 2}

\* Everything of a single run that the two deployments leave alone.
single ==
    <<input, Error, currentState, currentPercent, status, pc, ret, poll, sent,
      closes, calls, builds, built, activeDrive, history, consumer, env>>

\* node.UUID of the node each goroutine is started for.
NodeUUIDs == <<"node-a", "node-b">>

\* The literal user data of each run.
PairUserData(d) == UserDataString(Ignition \o <<Ascii.a + d>>)

\* The Deployment value the goroutine of run d constructs, and the locals
\* of its calls.
NewDeployment(d) ==
    [NodeUUID |-> NodeUUIDs[d],
     ConfigDrive |-> [UserData |-> PairUserData(d), MetaData |-> Absent,
                      NetworkData |-> Absent],
     Error |-> NoError,
     currentState |-> "",
     currentPercent |-> 0,
     status |-> d,
     pc |-> "Deploy",
     node |-> "",
     directory |-> 0,
     drive |-> <<>>]

PairInit ==
    /\ percentNonNil = FALSE
    /\ UpdateOptsLen = 0
    /\ ConfigDrive = DriverConfigDrive
    /\ Error = NoError
    /\ currentState = ""
    /\ currentPercent = 0
    /\ status = "unset"
    /\ pc = "Deploy"
    /\ ret = NotReturned
    /\ node = ""
    /\ sent = <<>>
    /\ closes = 0
    /\ calls = <<>>
    /\ builds = 0
    /\ fs = <<>>
    /\ built = NotBuilt
    /\ activeDrive = <<>>
    /\ failedIn = ""
    /\ getFailed = FALSE
    /\ wmUnrecognized = FALSE
    /\ getsParity = 0
    /\ cpc = "none"
    /\ errors = 0
    /\ remote = "manageable"
    /\ runs = [d \in Runs |-> NewDeployment(d)]
    /\ remotes = [u \in Range(NodeUUIDs) |-> "enroll"]
    /\ requests = {}
    /\ channels = [c \in Runs |-> <<>>]
    /\ actor = 0

\* How the remote service reacts to a transition request for a node.
React(ps, op) ==
    CASE op = "manage" /\ ps = "enroll" -> "verifying"
      [] op = "provide" /\ ps = "manageable" -> "cleaning"
      [] op = "active" /\ ps = "available" -> "deploy wait"
      [] OTHER -> ps

\* A remote call of run d: it names deployment.NodeUUID; the service
\* answers it (ok) or not.
PairCall(d, op, ok) ==
    /\ requests' = requests \cup
                     {[run |-> d, op |-> op, uuid |-> runs[d].NodeUUID]}
    /\ remotes' = IF ok THEN [remotes EXCEPT ![runs[d].NodeUUID] = React(@, op)]
                        ELSE remotes

\* deployment.status <- v
PairSend(d, v) ==
    channels' = [channels EXCEPT ![runs[d].status] = Append(@, v)]

\* Run d takes a step that leaves it as r.
PairUpdate(d, r) ==
    /\ runs' = [runs EXCEPT ![d] = r]
    /\ actor' = d

\* func Deploy
PairDeploy(d) ==
    /\ runs[d].pc = "Deploy"
    /\ PairUpdate(d, [runs[d] EXCEPT !.currentState = StateBegin,
                                     !.pc = "nextState"])
    /\ PairSend(d, StateBeginPercent)
    /\ UNCHANGED <<single, fs, remotes, requests>>

\* func (deployment *Deployment) nextState
PairNextState(d) ==
    /\ runs[d].pc = "nextState"
    /\ IF runs[d].Error # NoError
         THEN /\ PairUpdate(d, [runs[d] EXCEPT !.pc = "done"])
              /\ UNCHANGED channels
         ELSE /\ runs[d].currentState \in SwitchCases
              /\ PairUpdate(d,
                   [runs[d] EXCEPT
                      !.currentState = SwitchState(@),
                      !.currentPercent =
                         SwitchPercent(runs[d].currentState, @),
                      !.pc = SwitchNext(SwitchState(runs[d].currentState))])
              /\ PairSend(d, SwitchPercent(runs[d].currentState,
                                           runs[d].currentPercent))
    /\ UNCHANGED <<single, fs, remotes, requests>>

\* func (deployment *Deployment) done, and the return of Deploy
PairDone(d) ==
    /\ runs[d].pc = "done"
    /\ PairUpdate(d, [runs[d] EXCEPT !.pc = "returned"])
    /\ PairSend(d, StateDonePercent)
    /\ UNCHANGED <<single, fs, remotes, requests>>

\* configure, manage and provide: one request; provide assigns the result
\* to deployment.Error, the others only an error.
PairRequest(d) ==
    /\ runs[d].pc \in {"configure", "manage", "provide"}
    /\ \E ok \in BOOLEAN :
         LET op == IF runs[d].pc = "configure" THEN "patch" ELSE runs[d].pc
         IN /\ PairCall(d, op, ok)
            /\ PairUpdate(d,
                 [runs[d] EXCEPT
                    !.Error = IF ok THEN (IF op = "provide" THEN NoError ELSE @)
                                    ELSE TransportError(op),
                    !.pc = "nextState"])
    /\ UNCHANGED <<single, fs, channels>>

\* One iteration of the loop of waitManage, waitProvide or waitDeploy.
PairPoll(d) ==
    /\ runs[d].pc \in {"waitManage", "waitProvide", "waitDeploy"}
    /\ \E ok \in BOOLEAN :
         LET seen == remotes[runs[d].NodeUUID]
             r == [runs[d] EXCEPT !.node = IF ok THEN seen ELSE ""]
         IN /\ PairCall(d, "get", ok)
            /\ IF ~ok
                 THEN /\ PairUpdate(d, [r EXCEPT !.Error = TransportError("get"),
                                                 !.pc = "nextState"])
                      /\ UNCHANGED channels
               ELSE IF runs[d].pc = "waitManage"
                 THEN /\ PairUpdate(d,
                           IF seen = "manageable"
                             THEN [r EXCEPT !.pc = "nextState"]
                           ELSE IF seen = "verifying" THEN r
                           ELSE [r EXCEPT !.Error =
                                   UnexpectedState("manage failed", seen)])
                      /\ UNCHANGED channels
               ELSE IF runs[d].pc = "waitProvide"
                 THEN /\ PairUpdate(d,
                           IF seen = "available"
                             THEN [r EXCEPT !.pc = "nextState"]
                           ELSE IF seen = "cleaning" THEN r
                           ELSE [r EXCEPT !.pc = "returned"])
                      /\ UNCHANGED channels
               ELSE IF seen = "active"
                 THEN /\ PairUpdate(d, [r EXCEPT !.pc = "nextState"])
                      /\ UNCHANGED channels
               ELSE IF seen \in {"deploy wait", "deploying"}
                 THEN IF runs[d].currentPercent < StateWaitDeployPercent
                        THEN /\ runs[d].currentPercent
                                  < StateWaitProvidePercent + MaxRamp * RampStep
                             /\ PairUpdate(d, [r EXCEPT !.currentPercent =
                                                          @ + RampStep])
                             /\ PairSend(d, runs[d].currentPercent + RampStep)
                        ELSE /\ PairUpdate(d, r)
                             /\ UNCHANGED channels
               ELSE /\ PairUpdate(d,
                         [r EXCEPT !.Error =
                                     UnexpectedState("deploy failed", seen),
                                   !.pc = "nextState"])
                    /\ UNCHANGED channels
    /\ UNCHANGED <<single, fs>>

\* deploy, first part: ToConfigDrive up to ioutil.TempDir.
PairTempDir(d) ==
    /\ runs[d].pc = "deploy"
    /\ IF FreshNames(fs) = {}
         THEN /\ PairUpdate(d, [runs[d] EXCEPT !.Error = BuildError("TempDir"),
                                               !.pc = "nextState"])
              /\ UNCHANGED fs
         ELSE \E directory \in FreshNames(fs) :
                /\ fs' = TempDir(fs, directory)
                /\ PairUpdate(d, [runs[d] EXCEPT !.directory = directory,
                                                 !.pc = "stage"])
    /\ UNCHANGED <<single, remotes, requests, channels>>

\* deploy, second part: ToConfigDrive from os.MkdirAll to the last write.
PairStage(d) ==
    /\ runs[d].pc = "stage"
    /\ fs' = WriteFile(MkdirAll(fs, runs[d].directory), runs[d].directory,
                       "user_data",
                       ToUserData(runs[d].ConfigDrive.UserData).data)
    /\ PairUpdate(d, [runs[d] EXCEPT !.pc = "pack"])
    /\ UNCHANGED <<single, remotes, requests, channels>>

\* deploy, third part: the packing, the encoding and the "active" request.
PairActive(d) ==
    /\ runs[d].pc = "pack"
    /\ \E ok \in BOOLEAN :
         /\ PairCall(d, "active", ok)
         /\ PairUpdate(d,
              [runs[d] EXCEPT
                 !.drive = EncodeToString(
                             PackDirectoryAsISO(fs, runs[d].directory)),
                 !.Error = IF ok THEN NoError ELSE TransportError("active"),
                 !.pc = "nextState"])
    /\ UNCHANGED <<single, fs, channels>>

\* The remote service: a node makes progress on its own, or fails.
PairIronic(u) ==
    /\ \E d \in Runs : runs[d].pc # "returned"
    /\ remotes[u] \in {"verifying", "cleaning", "deploy wait", "deploying"}
    /\ \E ps \in {CASE remotes[u] = "verifying" -> "manageable"
                    [] remotes[u] = "cleaning" -> "available"
                    [] remotes[u] = "deploy wait" -> "deploying"
                    [] remotes[u] = "deploying" -> "active",
                  "deploy failed"} :
         remotes' = [remotes EXCEPT ![u] = ps]
    /\ actor' = 0
    /\ UNCHANGED <<single, fs, runs, requests, channels>>

PairRun(d) ==
    \/ PairDeploy(d) \/ PairNextState(d) \/ PairDone(d) \/ PairRequest(d)
    \/ PairPoll(d) \/ PairTempDir(d) \/ PairStage(d) \/ PairActive(d)

PairNext ==
    \/ \E d \in Runs : PairRun(d)
    \/ \E u \in Range(NodeUUIDs) : PairIronic(u)

PairSpec == PairInit /\ [][PairNext]_vars

TypeOK ==
    /\ pc \in {"Deploy", "sendBegin", "nextState", "sendPercent", "configure",
               "manage", "waitManage", "provide", "waitProvide", "deploy",
               "waitDeploy", "sendRamp", "done", "return", "returned"}
    /\ currentPercent \in 0..100
    /\ closes \in 0..1
    /\ cpc \in {"none", "recv", "check", "exit"}

(***************************************************************************)
(* Properties                                                              *)
(***************************************************************************)
NonDecreasing(q) == \A i \in 1..Len(q) : \A j \in 1..Len(q) : i < j => q[i] <= q[j]
Last(q) == q[Len(q)]
Occurrences(q, v) == Cardinality({i \in 1..Len(q) : q[i] = v})
Returned == pc = "returned"
PositionOf(s) == CHOOSE i \in 1..Len(HappyPath) : HappyPath[i] = s

\* C1: when Deploy has returned nil, the values sent on the progress channel
\* are in non-decreasing order and each of them lies in 0..100.
C1_ProgressNonDecreasing ==
    (Returned /\ ret = NoError) =>
        /\ NonDecreasing(sent)
        /\ \A i \in 1..Len(sent) : sent[i] \in 0..100

\* C2: the progress channel is closed at most once, only by the return of
\* Deploy, exactly once when Deploy has returned, and nothing is sent on it
\* after the close.
C2_ClosedOnceAtEnd ==
    /\ [](closes <= 1)
    /\ [](closes > 0 => Returned)
    /\ []((Returned /\ percentNonNil) => closes = 1)
    /\ [][closes > 0 => sent' = sent /\ closes' = closes]_vars

C2_Witness ==
    /\ Returned /\ percentNonNil /\ closes = 1 /\ cpc = "exit"
    /\ ret # NoError /\ Error = NoError

\* C3: when a run has gone through to DONE and reaches its return, 100 is
\* the last value sent, it was sent exactly once, and the close comes after it.
C3_HundredThenClose ==
    /\ (currentState = StateDone /\ pc = "return") =>
           (closes = 0 /\ sent # <<>> /\ Last(sent) = StateDonePercent)
    /\ (currentState = StateDone /\ Returned) =>
           /\ closes = 1
           /\ sent # <<>> /\ Last(sent) = StateDonePercent
           /\ Occurrences(sent, StateDonePercent) = 1

C3_Witness ==
    /\ currentState = StateDone /\ Returned /\ closes = 1
    /\ Last(sent) = StateDonePercent
    /\ Len(sent) > 12

\* C4: once a poll of WAIT_MANAGE has seen a state that is neither manageable
\* nor verifying, Deploy eventually returns an error with deployment.Error
\* set, and "provide" is never requested.
C4_UnrecognizedTerminates ==
    /\ wmUnrecognized ~> (Returned /\ ret # NoError /\ Error # NoError)
    /\ [](wmUnrecognized => "provide" \notin Range(calls))

\* C5: whenever Deploy has returned a non-nil error, deployment.Error is
\* non-nil and is the error that was returned.
C5_ErrorRecorded ==
    (Returned /\ ret # NoError) => (Error # NoError /\ Error = ret)

\* C6: once a nodes.Get call has failed the wait loop is left (no further
\* poll), deployment.Error is the get error, no later request is issued and
\* no config drive is built, and Deploy eventually returns the get error.
C6_GetFailureEndsWait ==
    /\ getFailed ~> (Returned /\ ret = TransportError("get"))
    /\ [](getFailed => pc \in {"nextState", "done", "return", "returned"})
    /\ [](getFailed => Error = TransportError("get"))
    /\ []((getFailed /\ pc \in {"return", "returned"}) => ret = TransportError("get"))
    /\ [][getFailed => (getsParity' = getsParity /\ calls' = calls
                         /\ builds' = builds)]_vars

C6_Witness ==
    /\ getFailed /\ Returned /\ ret = TransportError("get")
    /\ currentState = StateWaitDeploy /\ calls = <<"manage", "provide", "active">>

\* C7: with no patch operations, configure issues no patch call and records
\* no error, the dispatcher then moves from CONFIGURE to MANAGE, and the
\* first request the run issues is "manage".
C7_EmptyConfigure ==
    /\ [][(pc = "configure" /\ UpdateOptsLen = 0 /\ pc' # pc) =>
            (calls' = calls /\ Error' = NoError /\ pc' = "nextState")]_vars
    /\ [][(pc = "nextState" /\ currentState = StateConfigure
            /\ UpdateOptsLen = 0 /\ pc' # pc) =>
            currentState' = StateManage]_vars
    /\ [](UpdateOptsLen = 0 =>
            ("patch" \notin Range(calls) /\ (calls # <<>> => calls[1] = "manage")))

C7_Witness ==
    UpdateOptsLen = 0 /\ calls = <<"manage">> /\ currentState = StateManage

\* C8: a run started without a progress channel is never stuck: until Deploy
\* has returned, the goroutine that runs it can always take a step.
C8_NeverBlocksWithoutChannel ==
    (~percentNonNil /\ ~Returned) => ENABLED Orchestrator

\* C9: once a failure has occurred, no further patch or changeProvisionState
\* request is issued and no config drive is built, and the dispatcher, when
\* it runs with an error recorded, goes to done.
C9_FailureShortCircuits ==
    /\ [][failedIn # "" => (calls' = calls /\ builds' = builds)]_vars
    /\ [][(pc = "nextState" /\ Error # NoError /\ pc' # pc) => pc' = "done"]_vars
    /\ [](failedIn # "" => currentState = failedIn)

C9_Witness ==
    /\ failedIn = StateProvide /\ Returned
    /\ calls = <<"manage", "provide">> /\ builds = 0

\* C10: in the table of weights every state before DONE has a percentage
\* strictly below that of every later state of the happy path (in particular
\* the state the machine is in), and DONE has 100.
C10_WeightsIncrease ==
    /\ \A i \in 1..(Len(HappyPath) - 1) : \A j \in 1..Len(HappyPath) :
           i < j => Percent(HappyPath[i]) < Percent(HappyPath[j])
    /\ currentState \in SwitchCases =>
           \A j \in 1..Len(HappyPath) :
               PositionOf(currentState) < j =>
                   Percent(currentState) < Percent(HappyPath[j])
    /\ Percent(StateDone) = 100

C10_Witness ==
    currentState = StateWaitDeploy /\ pc = "waitDeploy" /\ node = "deploying"

(***************************************************************************)
(* C12.  Literal user data is passed through byte for byte: for a literal  *)
(* text s, ToUserData returns the bytes of s and no error, and a build     *)
(* that wrote user_data wrote exactly the bytes of s; a build that         *)
(* succeeded did write it.                                                 *)
(***************************************************************************)
C12_LiteralUserDataVerbatim ==
    ConfigDrive.UserData.t = "text" =>
      /\ ToUserData(ConfigDrive.UserData).err = NoError
      /\ ToUserData(ConfigDrive.UserData).data = ConfigDrive.UserData.v
      /\ \A d \in DOMAIN fs :
           "user_data" \in DOMAIN fs[d].files =>
             fs[d].files["user_data"] = ConfigDrive.UserData.v
      /\ BuiltOK => "user_data" \in DOMAIN fs[built.directory].files

\* A text that ends in white space and holds a byte that is no UTF-8 has
\* been staged.
C12_Witness ==
    /\ ConfigDrive.UserData = UserDataString(<<255, Ascii.space>>)
    /\ BuiltOK
    /\ fs[built.directory].files["user_data"] = <<255, Ascii.space>>

(***************************************************************************)
(* C13.  A user data mapping that JSON can represent serializes without    *)
(* error to a valid JSON text that parses back to the mapping.             *)
(***************************************************************************)
C13_MapRoundTrip ==
    (ConfigDrive.UserData.t = "map" /\ Representable(ConfigDrive.UserData)) =>
      /\ ToUserData(ConfigDrive.UserData).err = NoError
      /\ ParseJSON(ToUserData(ConfigDrive.UserData).data).ok
      /\ ParseJSON(ToUserData(ConfigDrive.UserData).data).v
           = ConfigDrive.UserData
      /\ BuiltOK =>
           ParseJSON(fs[built.directory].files["user_data"]).v
             = ConfigDrive.UserData

\* A mapping with a nested map, whose key and string need escaping, has been
\* staged and reads back.
C13_Witness ==
    /\ ConfigDrive.UserData
         = UserDataMap(<<Ascii.a>> :>
                         JMap(<<Ascii.B, Ascii.quote>> :>
                                JStr(<<Ascii.backslash>>)))
    /\ BuiltOK
    /\ ParseJSON(fs[built.directory].files["user_data"]).ok

C20_ExactlyPresentPayloads ==
    /\ BuiltOK =>
         /\ fs[built.directory].layout
         /\ DOMAIN fs[built.directory].files = PresentNames(ConfigDrive)
    /\ PresentNames(ConfigDrive) = {} =>
         \A d \in FreshNames(fs) :
           ToConfigDrive(ConfigDrive, fs, d, "none").err = NoError

\* Metadata alone has been staged.
C20_Witness ==
    /\ BuiltOK
    /\ PresentNames(ConfigDrive) = {"meta_data.json"}
    /\ DOMAIN fs[built.directory].files = {"meta_data.json"}

\* A drive without any payload has been built.
C20_WitnessEmpty ==
    /\ BuiltOK
    /\ PresentNames(ConfigDrive) = {}
    /\ DOMAIN fs[built.directory].files = {}

(***************************************************************************)
(* C15.  On a run that returned nil, the values sent on entering BEGIN,    *)
(* CONFIGURE, MANAGE, WAIT_MANAGE, PROVIDE, WAIT_PROVIDE and DEPLOY are    *)
(* the weights of these states (0, 10, 15, 20, 25, 30, 35), followed by    *)
(* the increasing ramp of WAIT_DEPLOY and by 100.                          *)
(***************************************************************************)
C15_EntryWeights ==
    (Returned /\ ret = NoError) =>
      /\ Len(sent) >= PositionOf(StateDeploy) + 1
      /\ \A i \in 1..PositionOf(StateDeploy) : sent[i] = Percent(HappyPath[i])
      /\ \A i \in (PositionOf(StateDeploy) + 1)..(Len(sent) - 1) :
           sent[i] > sent[i - 1] /\ sent[i] < StateDonePercent
      /\ Last(sent) = StateDonePercent

(***************************************************************************)
(* C16.  The remote operations follow the linear order: "provide" is       *)
(* requested only when the last poll saw "manageable" and "manage" was     *)
(* requested, "active" only when the last poll saw "available" and         *)
(* "provide" was requested, DONE is entered only when the last poll saw    *)
(* "active", and each transition is requested at most once.                *)
(***************************************************************************)
C16_LinearOrder ==
    /\ [][Len(calls') > Len(calls) =>
            /\ Last(calls') = "provide" =>
                 node = "manageable" /\ "manage" \in Range(calls)
            /\ Last(calls') = "active" =>
                 node = "available" /\ "provide" \in Range(calls)]_vars
    /\ [](currentState = StateDone =>
            node = "active" /\ "active" \in Range(calls))
    /\ [](\A op \in {"manage", "provide", "active"} :
            Occurrences(calls, op) <= 1)

\* A run went through all three requests and reached DONE.
C16_Witness ==
    /\ currentState = StateDone
    /\ calls = <<"manage", "provide", "active">>

\* A poll of WAIT_DEPLOY that observes "deploy wait" or "deploying".
InProgressPoll ==
    /\ pc = "waitDeploy"
    /\ getsParity' # getsParity
    /\ node' \in {"deploy wait", "deploying"}

(***************************************************************************)
(* C17, as stated.  Every poll of WAIT_DEPLOY that observes "deploy wait"  *)
(* or "deploying" emits a value above the one emitted before it, and every *)
(* value emitted during WAIT_DEPLOY is below 100.                          *)
(***************************************************************************)
C17_EveryPollAdvances ==
    /\ [][InProgressPoll =>
            pc' = "sendRamp" /\ currentPercent' > Last(sent)]_vars
    /\ [][(pc = "sendRamp" /\ sent' # sent) =>
            Last(sent') < StateDonePercent]_vars

(***************************************************************************)
(* C17, amended.  A poll of WAIT_DEPLOY that observes "deploy wait" or     *)
(* "deploying" while currentPercent is below StateWaitDeployPercent emits  *)
(* currentPercent + 2, which is above the value emitted before it; such a  *)
(* poll at or above StateWaitDeployPercent emits nothing and leaves        *)
(* currentPercent alone; every value emitted during WAIT_DEPLOY is below   *)
(* 100.                                                                    *)
(***************************************************************************)
C17_RampUntilCap ==
    /\ [][InProgressPoll =>
            IF currentPercent < StateWaitDeployPercent
              THEN /\ pc' = "sendRamp"
                   /\ currentPercent' = currentPercent + RampStep
                   /\ currentPercent' > Last(sent)
              ELSE /\ pc' = "waitDeploy"
                   /\ currentPercent' = currentPercent
                   /\ sent' = sent]_vars
    /\ [][(pc = "sendRamp" /\ sent' # sent) =>
            /\ Last(sent') = currentPercent
            /\ Last(sent') > Last(sent)
            /\ Last(sent') < StateDonePercent]_vars

\* The ramp has reached its cap while the node is still deploying.
C17_Witness ==
    /\ pc = "waitDeploy"
    /\ node = "deploying"
    /\ currentPercent >= StateWaitDeployPercent
    /\ Last(sent) = currentPercent

\* The values a run that returns nil sends: the weights and the ramp.
SuccessfulRunValues ==
    {Percent(s) : s \in Range(HappyPath)}
      \cup {StateWaitProvidePercent + k * RampStep :
              k \in 1..((StateWaitDeployPercent - StateWaitProvidePercent)
                          \div RampStep + 1)}

(***************************************************************************)
(* C18.  Once an error is recorded on the deployment, no value that a      *)
(* successful run sends (100 in particular) is sent on the channel.        *)
(***************************************************************************)
C18_NoProgressAfterFailure ==
    [][(Error # NoError /\ sent' # sent) =>
         Last(sent') \notin SuccessfulRunValues]_vars

(***************************************************************************)
(* C19.  The "active" request is made in the step that built the config    *)
(* drive, only if the build succeeded, and carries the string the build    *)
(* returned; a failed build is recorded on the deployment, is followed by  *)
(* no "active" request, and the run returns the build error.               *)
(***************************************************************************)
C19_BuildThenActive ==
    /\ [][(Len(calls') > Len(calls) /\ Last(calls') = "active") =>
            /\ builds' = builds + 1
            /\ built'.err = NoError
            /\ activeDrive' = built'.drive]_vars
    /\ []((builds > 0 /\ built.err # NoError) =>
            /\ Error = built.err
            /\ "active" \notin Range(calls)
            /\ Returned => ret = built.err)
    /\ (builds > 0 /\ built.err # NoError) ~> Returned

\* A run whose build failed at writing user_data has returned that error.
C19_Witness ==
    /\ Returned
    /\ built.err = BuildError("user_data")
    /\ ret = built.err
    /\ calls = <<"manage", "provide">>

\* A run whose build succeeded has requested "active" with the drive.
C19_WitnessActive ==
    /\ built.err = NoError
    /\ "active" \in Range(calls)
    /\ activeDrive = built.drive

\* Run d has a staging directory.
Staged(d) == runs[d].directory # 0

(***************************************************************************)
(* C11.  Two concurrent deployments for different nodes do not interfere:  *)
(* every remote call names the NodeUUID of the run that makes it and a     *)
(* poll sees the state of that node; the fields of a run change only in a  *)
(* step of that run; a value is sent only on the channel of the run that   *)
(* sends it; the staging directories of the two runs differ and each       *)
(* holds only the user data of its run.                                    *)
(***************************************************************************)
C11_NoInterference ==
    /\ [](\A q \in requests : q.uuid = NodeUUIDs[q.run])
    /\ [][\A d \in Runs :
            runs'[d].node # runs[d].node =>
              runs'[d].node \in {"", remotes[NodeUUIDs[d]]}]_vars
    /\ [][\A d \in Runs : runs'[d] # runs[d] => actor' = d]_vars
    /\ [][\A c \in DOMAIN channels :
            channels'[c] # channels[c] =>
              actor' \in Runs /\ runs[actor'].status = c /\ actor' = c]_vars
    /\ [](\A d \in Runs : \A e \in Runs \ {d} :
            (Staged(d) /\ Staged(e)) => runs[d].directory # runs[e].directory)
    /\ [](\A d \in Runs :
            (Staged(d) /\ "user_data" \in DOMAIN fs[runs[d].directory].files) =>
              fs[runs[d].directory].files["user_data"]
                = ToUserData(PairUserData(d)).data)

\* Both runs have staged and sent their drive, while both are still running.
C11_Witness ==
    /\ \A d \in Runs : Staged(d) /\ runs[d].drive # <<>>
    /\ \A d \in Runs : runs[d].pc = "waitDeploy"
    /\ Cardinality({q.uuid : q \in requests}) = Cardinality(Runs)

\* The steps of a build, in the order ToConfigDrive takes them.
BuildOrder ==
    <<"TempDir", "MkdirAll", "user_data", "meta_data.json",
      "network_data.json", "PackDirectoryAsISO">>

StepIndex(step) == CHOOSE i \in 1..Len(BuildOrder) : BuildOrder[i] = step

\* The error of serializing the payload written to file `name`.
SerializeError(configDrive, name) ==
    CASE name = "user_data" -> ToUserData(configDrive.UserData).err
      [] name = "meta_data.json" -> Marshal(configDrive.MetaData).err
      [] name = "network_data.json" -> Marshal(configDrive.NetworkData).err

\* The present payloads that cannot be serialized.
Unserializable(configDrive) ==
    {name \in PresentNames(configDrive) :
       SerializeError(configDrive, name) # NoError}

\* The step a failed build stopped at, from the error it returned: the step
\* of the system call that failed, or the first payload that cannot be
\* serialized.
FailedStep(configDrive, err) ==
    IF err.kind = "build" THEN err.state
    ELSE CHOOSE name \in Unserializable(configDrive) :
           \A other \in Unserializable(configDrive) :
             StepIndex(name) <= StepIndex(other)

(***************************************************************************)
(* C21.  A build that fails returns the empty string with its error and    *)
(* runs no step after the one that failed: a failing TempDir leaves the    *)
(* file system alone; otherwise the staging directory holds the layout     *)
(* only if MkdirAll was passed, the files of the present payloads that     *)
(* come before the failing step, and no file of a later step.  A payload   *)
(* that cannot be serialized makes the build fail.                         *)
(***************************************************************************)
C21_FailureAborts ==
    [][(builds' = builds + 1 /\ built'.err # NoError) =>
         LET step == FailedStep(ConfigDrive, built'.err)
         IN /\ built'.drive = <<>>
            /\ step \in Range(BuildOrder)
            /\ IF step = "TempDir"
                 THEN built'.directory = 0 /\ fs' = fs
                 ELSE /\ built'.directory \notin DOMAIN fs
                      /\ DOMAIN fs' = DOMAIN fs \cup {built'.directory}
                      /\ \A d \in DOMAIN fs : fs'[d] = fs[d]
                      /\ fs'[built'.directory].layout
                           = (StepIndex(step) > StepIndex("MkdirAll"))
                      /\ \A name \in Range(FileNames) :
                           /\ StepIndex(name) < StepIndex(step) =>
                                (name \in DOMAIN fs'[built'.directory].files
                                   <=> name \in PresentNames(ConfigDrive))
                           /\ StepIndex(name) > StepIndex(step) =>
                                name \notin DOMAIN fs'[built'.directory].files]_vars
    /\ [](builds > 0 /\ Unserializable(ConfigDrive) # {} =>
            built.err # NoError)
    /\ [](builds > 0 /\ built.err = UnsupportedType =>
            Unserializable(ConfigDrive) # {})

\* A build wrote the user data, failed at serializing the metadata, and left
\* the network data unwritten.
C21_Witness ==
    /\ builds > 0
    /\ built.err = UnsupportedType
    /\ PresentNames(ConfigDrive)
         = {"user_data", "meta_data.json", "network_data.json"}
    /\ DOMAIN fs[built.directory].files = {"user_data"}

(***************************************************************************)
(* C22.  When ToConfigDrive has returned, with or without an error, the    *)
(* staging directory it created and the files in it no longer exist, and   *)
(* no staging directory is left over whatever the number of builds.        *)
(***************************************************************************)
C22_StagingCleanedUp ==
    builds > 0 =>
      /\ built.directory \notin DOMAIN fs
      /\ Cardinality(DOMAIN fs) = 0

\* The remote service on the happy path: reachable whenever a request is
\* about to be made, and in a state the wait loop recognizes whenever a poll
\* is about to be made.
HappyRemote ==
    /\ pc \in {"configure", "manage", "provide", "deploy"} =>
         remote # Unreachable
    /\ pc = "waitManage" => remote \in {"verifying", "manageable"}
    /\ pc = "waitProvide" => remote \in {"cleaning", "available"}
    /\ pc = "waitDeploy" => remote \in {"deploy wait", "deploying", "active"}

\* The node has reached the state the wait loop is waiting for.
Settled ==
    /\ pc = "waitManage" => remote = "manageable"
    /\ pc = "waitProvide" => remote = "available"
    /\ pc = "waitDeploy" => remote = "active"

\* The run has gone through to DONE and Deploy has returned nil.
ReturnedNil == Returned /\ ret = NoError /\ currentState = StateDone

(***************************************************************************)
(* C23, as stated.  With a progress channel that is drained, every remote  *)
(* call succeeding, and every wait loop seeing only its in-progress states *)
(* and, after finitely many polls, its target, the run eventually reaches  *)
(* DONE and Deploy returns nil.                                            *)
(***************************************************************************)
C23_HappyPathLiveness ==
    (percentNonNil /\ []HappyRemote /\ <>[]Settled) => <>ReturnedNil

(***************************************************************************)
(* C23, amended.  The same, for a run whose config drive build succeeds;   *)
(* and a poll of WAIT_PROVIDE that sees "cleaning" stays in the loop,      *)
(* DEPLOY being entered only after a poll that saw "available".            *)
(***************************************************************************)
C23_HappyPathWithBuild ==
    /\ (percentNonNil /\ []HappyRemote /\ <>[]Settled
          /\ [](builds > 0 => built.err = NoError)) => <>ReturnedNil
    /\ [][(pc = "waitProvide" /\ getsParity' # getsParity
             /\ node' = "cleaning") =>
            (pc' = "waitProvide" /\ Error' = NoError /\ ret' = NotReturned)]_vars
    /\ [][(currentState' = StateDeploy /\ currentState # StateDeploy) =>
            node = "available"]_vars

\* A run has returned nil after in-progress polls of WAIT_DEPLOY up to the
\* cap of the ramp, with the consumer gone through the close.
C23_Witness ==
    /\ ReturnedNil
    /\ percentNonNil /\ cpc = "exit"
    /\ built.err = NoError
    /\ \E i \in 1..Len(sent) : sent[i] > StateWaitDeployPercent
                                 /\ sent[i] < StateDonePercent

(***************************************************************************)
(* C24.  While the run is in WAIT_DEPLOY, currentPercent and every value   *)
(* the loop of waitDeploy sends on the channel are at most                 *)
(* StateWaitDeployPercent.                                                 *)
(***************************************************************************)
C24_RampWithinWeight ==
    /\ [](currentState = StateWaitDeploy =>
            currentPercent <= StateWaitDeployPercent)
    /\ [][(pc = "sendRamp" /\ sent' # sent) =>
            Last(sent') <= StateWaitDeployPercent]_vars

(***************************************************************************)
(* C25.  Whenever the progress channel has been closed, the last value     *)
(* sent on it is StateDonePercent, whether the run succeeded or failed.    *)
(***************************************************************************)
C25_HundredBeforeEveryClose ==
    closes > 0 => (sent # <<>> /\ Last(sent) = StateDonePercent)

(***************************************************************************)
(* C26.  Deploy returns nil exactly when the run reached DONE.  A run that *)
(* returned nil is in DONE, recorded no error and had no failure, and it   *)
(* requested "manage", "provide" and "active" in this order, "provide"     *)
(* after a poll saw "manageable", "active" after a poll saw "available",   *)
(* and it entered DONE after a poll saw "active".  A run in which a        *)
(* failure occurred never enters DONE and never returns nil.               *)
(***************************************************************************)
C26_NilIffDone ==
    /\ []((Returned /\ ret = NoError) =>
            /\ currentState = StateDone
            /\ Error = NoError /\ failedIn = ""
            /\ SelectSeq(calls, LAMBDA op : op # "patch")
                 = <<"manage", "provide", "active">>
            /\ node = "active")
    /\ []((Returned /\ currentState = StateDone) => ret = NoError)
    /\ [](failedIn # "" =>
            /\ currentState # StateDone
            /\ ret # NoError
            /\ Returned => ret \notin {NoError, NotReturned})
    /\ [][(currentState' # currentState /\ failedIn = "") =>
            /\ currentState' = StateProvide =>
                 node = "manageable" /\ Last(calls) = "manage"
            /\ currentState' = StateDeploy =>
                 node = "available" /\ Last(calls) = "provide"
            /\ currentState' = StateDone =>
                 node = "active" /\ Last(calls) = "active"]_vars

\* A run that patched the node has gone through to DONE and returned nil.
C26_Witness ==
    /\ Returned /\ ret = NoError
    /\ currentState = StateDone
    /\ calls = <<"patch", "manage", "provide", "active">>
    /\ failedIn = ""

\* A run failed in WAIT_MANAGE, went on polling, saw "manageable" and
\* returned the error without entering DONE.
C26_WitnessFailed ==
    /\ Returned
    /\ wmUnrecognized /\ node = "manageable"
    /\ ret # NoError /\ ret = Error
    /\ currentState = StateWaitManage

(***************************************************************************)
(* C27.  The goroutine that drains the channel appends the error of a      *)
(* deployment to the errors list only if the deployment failed and never   *)
(* more than once, and when it has left its loop it has appended exactly   *)
(* once for a failed deployment and not at all for a successful one.       *)
(***************************************************************************)
C27_AppendedExactlyOnce ==
    /\ errors <= 1
    /\ errors > 0 => failedIn # ""
    /\ cpc = "exit" => errors = (IF ret # NoError THEN 1 ELSE 0)

====
